---- MODULE Spec2Model ----
(***************************************************************************)
(* A model of the tw3d rendering core: the STL decoder of                  *)
(* tw3d-core/src/stl.rs (binary records, the nom-based ASCII parser and    *)
(* the format detection of parse_stl) and the z-buffered ASCII rasterizer  *)
(* of tw3d-terminal/src/renderer.rs.                                       *)
(*                                                                         *)
(* Bytes are naturals 0..255 and an input is a sequence of bytes.  An f32  *)
(* is kept as its IEEE-754 fields [s, e, m] (sign, biased exponent,        *)
(* 23-bit fraction), so that NaN and the infinities are values like any    *)
(* other.  A u32 is kept as two 16-bit limbs <<hi, lo>>: the declared      *)
(* triangle count ranges over all of 0..2^32-1.                            *)
(***************************************************************************)
EXTENDS Integers, Sequences, FiniteSets, TLC

VARIABLES
    data,          \* the input handed to the decoder: a sequence of bytes
    src,           \* how the input was built (history variable)
    result,        \* the last decoder call and what it returned
    prior,         \* what the same triangles decoded to in the other format
    width,         \* AsciiRenderer.width
    height,        \* AsciiRenderer.height
    depth_buffer,  \* AsciiRenderer.depth_buffer
    char_buffer,   \* AsciiRenderer.char_buffer
    drawn,         \* the triangles rasterized since the last clear (history)
    last,          \* the renderer operation that produced this state
    rotation,      \* a RotationState (TerminalApp.rotation)
    calls,         \* the rotate calls made on it so far (history)
    clip,          \* a point in clip space, mvp.transform_point(point)
    projected,     \* what project_to_screen returned for it
    pc,            \* where TerminalApp::main_loop is
    shown,         \* what the last draw handed to the terminal
    frame,         \* what the frame being rendered began from (history)
    running,       \* TerminalApp.running
    face,          \* the vertex positions of a Triangle
    face_normal,   \* what calculate_normal returned for it
    glyph          \* the character render_triangle shades it with

stlVars == <<data, src, result, prior>>
renderVars == <<width, height, depth_buffer, char_buffer, drawn, last>>
rotVars == <<rotation, calls>>
projVars == <<clip, projected>>
loopVars == <<pc, shown, frame, running>>
geoVars == <<face, face_normal, glyph>>
vars == <<data, src, result, prior, width, height, depth_buffer, char_buffer, drawn, last,
          rotation, calls, clip, projected, pc, shown, frame, running, face, face_normal, glyph>>

----------------------------------------------------------------------------
(* Bounds of the model. *)

\* most records / facets in a generated input
MaxTriangles == 2
\* most trailing bytes removed from an input by TruncateInput
MaxTruncate == 2

----------------------------------------------------------------------------
(* Generic helpers. *)

\* the element of a one-element set
Only(S) == CHOOSE x \in S : TRUE

Min(a, b) == IF a <= b THEN a ELSE b
Max(a, b) == IF a >= b THEN a ELSE b

RECURSIVE Flatten(_)
Flatten(ss) ==
    IF Len(ss) = 0 THEN <<>>
    ELSE IF Len(ss) = 1 THEN ss[1]
    ELSE Flatten(SubSeq(ss, 1, Len(ss) \div 2))
           \o Flatten(SubSeq(ss, Len(ss) \div 2 + 1, Len(ss)))

Repeat(b, n) == [i \in 1..n |-> b]

\* the part of s from 1-based position p to the end
Drop(s, p) == SubSeq(s, p, Len(s))


----------------------------------------------------------------------------
(* Results: Result<Mesh, String>, plus the two ways a call can fail to     *)
(* return at all.                                                          *)

Ok(mesh) == [tag |-> "Ok", mesh |-> mesh]
Err(msg) == [tag |-> "Err", msg |-> msg]
Panic(msg) == [tag |-> "Panic", msg |-> msg]
Abort(msg) == [tag |-> "Abort", msg |-> msg]

----------------------------------------------------------------------------
(* geometry.rs *)

Vertex_new(x, y, z, nx, ny, nz) ==
    [position |-> <<x, y, z>>, normal |-> <<nx, ny, nz>>]

Triangle_new(v0, v1, v2) == <<v0, v1, v2>>

\* Mesh::add_triangle: push at the end
add_triangle(mesh, t) == Append(mesh, t)

----------------------------------------------------------------------------
(* Machine numbers. *)

\* f32::from_le_bytes: the IEEE-754 single whose little-endian bytes are
\* b0 b1 b2 b3
f32_from_le_bytes(b0, b1, b2, b3) ==
    [s |-> b3 \div 128,
     e |-> (b3 % 128) * 2 + (b2 \div 128),
     m |-> (b2 % 128) * 65536 + b1 * 256 + b0]

IsFinite(f) == f.e < 255

\* u32::from_le_bytes as two 16-bit limbs
u32_from_le_bytes(b0, b1, b2, b3) == <<b3 * 256 + b2, b1 * 256 + b0>>

\* a small natural as a u32
U32(n) == <<n \div 65536, n % 65536>>

\* i < c for a natural i < 2^31 and a u32 c
NatLtU32(i, c) == (i \div 65536) < c[1] \/ ((i \div 65536) = c[1] /\ (i % 65536) < c[2])

U32Le(a, b) == a[1] < b[1] \/ (a[1] = b[1] /\ a[2] <= b[2])

----------------------------------------------------------------------------
(* The build target and the allocator, as far as Vec::with_capacity sees   *)
(* them: the width of usize, and how many Triangle slots (72 bytes each:   *)
(* 3 vertices of 6 f32) one allocation request can be granted.             *)

Envs ==
    { [usize_bits |-> 32, avail |-> <<65535, 65535>>],
      [usize_bits |-> 64, avail |-> U32(65535)],
      [usize_bits |-> 64, avail |-> <<65535, 65535>>] }

\* Mesh::with_capacity(n) -> Vec::with_capacity(n): "capacity overflow"
\* panic when n * size_of::<Triangle>() exceeds isize::MAX, abort
\* (handle_alloc_error) when the allocator refuses the request.
with_capacity(n, env) ==
    IF env.usize_bits = 32 /\ ~U32Le(n, U32(2147483647 \div (3 * 6 * 4)))
    THEN Panic("capacity overflow")
    ELSE IF ~U32Le(n, env.avail)
    THEN Abort("memory allocation failed")
    ELSE Ok(<<>>)

----------------------------------------------------------------------------
(* stl.rs: parse_binary_stl *)

\* d[i] for a 0-based index i, as the slice index expression data[i]
At(d, i) == d[i + 1]

\* stl.rs:33-52, one 50-byte record at 0-based `offset` of d: the normal,
\* then three vertices that all carry it; the 2 attribute bytes are skipped
\* without being read.
read_f32(d, o) == f32_from_le_bytes(At(d, o), At(d, o + 1), At(d, o + 2), At(d, o + 3))

\* read_record with the vertices read from where the normal starts: the
\* 12 bytes of the normal are not skipped
read_record_normal_not_skipped(d, offset) ==
    LET nx == read_f32(d, offset)
        ny == read_f32(d, offset + 4)
        nz == read_f32(d, offset + 8)
        vertex(k) == Vertex_new(read_f32(d, offset + 12 * k),
                                read_f32(d, offset + 12 * k + 4),
                                read_f32(d, offset + 12 * k + 8),
                                nx, ny, nz)
    IN  Triangle_new(vertex(0), vertex(1), vertex(2))

read_record(d, offset) ==
    LET nx == read_f32(d, offset)
        ny == read_f32(d, offset + 4)
        nz == read_f32(d, offset + 8)
        vertex(k) == Vertex_new(read_f32(d, offset + 12 + 12 * k),
                                read_f32(d, offset + 12 + 12 * k + 4),
                                read_f32(d, offset + 12 + 12 * k + 8),
                                nx, ny, nz)
    IN  Triangle_new(vertex(0), vertex(1), vertex(2))

\* the highest 0-based index a record at `offset` reads
record_last_read(offset) == offset + 47

\* stl.rs:28-53, the loop `for _ in 0..triangle_count`, entered at iteration
\* i with the running offset and the mesh built so far
RECURSIVE binary_loop(_, _, _, _, _)
binary_loop(d, triangle_count, i, offset, mesh) ==
    IF ~NatLtU32(i, triangle_count) THEN Ok(mesh)
    ELSE IF offset + 50 > Len(d) THEN Err("Unexpected end of file")
    ELSE IF record_last_read(offset) >= Len(d) THEN Panic("index out of bounds")
    ELSE binary_loop(d, triangle_count, i + 1, offset + 50,
                     add_triangle(mesh, read_record(d, offset)))

\* stl.rs:14-56
parse_binary_stl(input, env) ==
    IF Len(input) < 84 THEN Err("File too small to be a valid STL")
    ELSE
        LET d == Drop(input, 81)
            triangle_count == u32_from_le_bytes(At(d, 0), At(d, 1), At(d, 2), At(d, 3))
            mesh == with_capacity(triangle_count, env)
        IN  IF mesh.tag # "Ok" THEN mesh
            ELSE binary_loop(d, triangle_count, 0, 4, mesh.mesh)

----------------------------------------------------------------------------
(* The nom combinators stl.rs imports (stl.rs:2-9), over an input s and a  *)
(* 1-based position p into it: the remaining input is Drop(s, p).  A       *)
(* parser returns Done(p', v), or Fail("Error") (recoverable: `alt`,       *)
(* `opt` and `many0` go on) or Fail("Failure") (raised by `cut`; nothing   *)
(* recovers from it).                                                      *)

Done(p, v) == [ok |-> TRUE, pos |-> p, val |-> v]
Fail(k) == [ok |-> FALSE, kind |-> k]

\* ' ', '\t', '\n', '\r'
IsSpace(b) == b \in {32, 9, 10, 13}
IsDigit(b) == b >= 48 /\ b <= 57

\* the first position from p on whose byte does not satisfy P (Len(s) + 1 if
\* there is none)
SkipWhile(P(_), s, p) ==
    CHOOSE q \in p..(Len(s) + 1) :
        /\ q = Len(s) + 1 \/ ~P(s[q])
        /\ \A r \in p..(q - 1) : P(s[r])

\* character::complete::multispace0
multispace0(s, p) == Done(SkipWhile(IsSpace, s, p), <<>>)

\* character::complete::multispace1
multispace1(s, p) ==
    LET q == SkipWhile(IsSpace, s, p)
    IN  IF q = p THEN Fail("Error") ELSE Done(q, <<>>)

\* bytes::complete::tag
tag(t, s, p) ==
    IF p + Len(t) - 1 <= Len(s) /\ SubSeq(s, p, p + Len(t) - 1) = t
    THEN Done(p + Len(t), t)
    ELSE Fail("Error")

\* bytes::complete::take(count)
take(count, s, p) ==
    IF p + count - 1 <= Len(s) THEN Done(p + count, SubSeq(s, p, p + count - 1))
    ELSE Fail("Error")

\* 'A'..'Z' to lower case
Lower(b) == IF b >= 65 /\ b <= 90 THEN b + 32 ELSE b

\* bytes::complete::tag_no_case
tag_no_case(t, s, p) ==
    IF p + Len(t) - 1 <= Len(s)
       /\ \A i \in 1..Len(t) : Lower(s[p + i - 1]) = Lower(t[i])
    THEN Done(p + Len(t), SubSeq(s, p, p + Len(t) - 1))
    ELSE Fail("Error")

IsSign(b) == b \in {43, 45}

\* number::complete::recognize_float: [+-] (digit1 ['.' [digit1]] | '.' digit1)
\* [(e|E) [+-] cut(digit1)].  Returns the position after the token.
recognize_float(s, p) ==
    LET has(q, P(_)) == q <= Len(s) /\ P(s[q])
        p1 == IF has(p, IsSign) THEN p + 1 ELSE p
        i2 == SkipWhile(IsDigit, s, p1)
        IsDot(b) == b = 46
        IsE(b) == b \in {101, 69}
        \* end of the mantissa, or 0 when neither alternative matches
        p2 == IF i2 > p1
              THEN IF has(i2, IsDot) THEN SkipWhile(IsDigit, s, i2 + 1) ELSE i2
              ELSE IF has(p1, IsDot) /\ has(p1 + 1, IsDigit)
                   THEN SkipWhile(IsDigit, s, p1 + 1)
                   ELSE 0
    IN  IF p2 = 0 THEN Fail("Error")
        ELSE IF ~has(p2, IsE) THEN Done(p2, <<>>)
        ELSE LET p3 == IF has(p2 + 1, IsSign) THEN p2 + 2 ELSE p2 + 1
                 p4 == SkipWhile(IsDigit, s, p3)
             IN  IF p4 = p3 THEN Fail("Failure") ELSE Done(p4, <<>>)

\* number::complete::recognize_float_or_exceptions: alt((recognize_float,
\* tag_no_case("nan"), tag_no_case("inf"), tag_no_case("infinity")))
recognize_float_or_exceptions(s, p) ==
    LET r == recognize_float(s, p)
        nan == tag_no_case(<<110, 97, 110>>, s, p)
        inf == tag_no_case(<<105, 110, 102>>, s, p)
        infinity == tag_no_case(<<105, 110, 102, 105, 110, 105, 116, 121>>, s, p)
    IN  IF r.ok \/ r.kind = "Failure" THEN r
        ELSE IF nan.ok THEN nan
        ELSE IF inf.ok THEN inf
        ELSE IF infinity.ok THEN infinity
        ELSE Fail("Error")

----------------------------------------------------------------------------
(* str::parse::<f32> (what nom's `float` applies to the recognized token): *)
(* the decimal token's value, rounded to the nearest f32, ties to even.    *)
(* The arithmetic is exact on integers below 2^31, which covers tokens of  *)
(* a few digits; exponents beyond the f32 range give infinity or zero.     *)

RECURSIVE DigitsValue(_)
DigitsValue(ds) ==
    IF ds = <<>> THEN 0
    ELSE 10 * DigitsValue(SubSeq(ds, 1, Len(ds) - 1)) + (ds[Len(ds)] - 48)

Pow10(n) == 10 ^ n

RECURSIVE Gcd(_, _)
Gcd(a, b) == IF b = 0 THEN a ELSE Gcd(b, a % b)

\* a/b scaled by 2^k into [2^23, 2^24): <<a', b', k>> with a'/b' = (a/b) * 2^k
Normalize(a, b) ==
    IF a \div b < 8388608
    THEN Only({<<a * 2 ^ k, b, k>> :
                 k \in {CHOOSE k \in 1..31 : (a * 2 ^ k) \div b >= 8388608}})
    ELSE IF a \div b >= 16777216
    THEN Only({<<a, b * 2 ^ k, -k>> :
                 k \in {CHOOSE k \in 1..8 : a \div (b * 2 ^ k) < 16777216}})
    ELSE <<a, b, 0>>

f32_zero(s) == [s |-> s, e |-> 0, m |-> 0]
f32_infinity(s) == [s |-> s, e |-> 255, m |-> 0]
\* f32::NAN, 0x7fc00000
f32_nan == [s |-> 0, e |-> 255, m |-> 4194304]

\* the f32 nearest to a/b, for integers a, b > 0
RoundRatio(s, a, b) ==
    LET n == Normalize(a, b)
        q == n[1] \div n[2]
        r == n[1] % n[2]
        up == 2 * r > n[2] \/ (2 * r = n[2] /\ q % 2 = 1)
        q1 == IF up THEN q + 1 ELSE q
        \* a carry out of the 24-bit significand
        q2 == IF q1 = 16777216 THEN 8388608 ELSE q1
        e == 150 - n[3] + (IF q1 = 16777216 THEN 1 ELSE 0)
    IN  IF e >= 255 THEN f32_infinity(s)
        ELSE [s |-> s, e |-> e, m |-> q2 - 8388608]

\* the f32 nearest to N * 10^E
DecimalToF32(s, N, E) ==
    IF N = 0 THEN f32_zero(s)
    ELSE IF E >= 39 THEN f32_infinity(s)
    ELSE IF E <= -55 THEN f32_zero(s)
    ELSE LET a == IF E >= 0 THEN N * Pow10(E) ELSE N
             b == IF E >= 0 THEN 1 ELSE Pow10(-E)
             g == Gcd(a, b)
         IN  RoundRatio(s, a \div g, b \div g)

\* t is a token recognize_float_or_exceptions accepted
f32_from_str(t) ==
    IF Lower(t[1]) = 110 THEN f32_nan
    ELSE IF Lower(t[1]) = 105 THEN f32_infinity(0)
    ELSE
        LET s == IF t[1] = 45 THEN 1 ELSE 0
            p1 == IF IsSign(t[1]) THEN 2 ELSE 1
            i2 == SkipWhile(IsDigit, t, p1)
            hasDot == i2 <= Len(t) /\ t[i2] = 46
            f2 == IF hasDot THEN SkipWhile(IsDigit, t, i2 + 1) ELSE i2
            frac == IF hasDot THEN SubSeq(t, i2 + 1, f2 - 1) ELSE <<>>
            hasExp == f2 <= Len(t)
            e1 == IF hasExp /\ IsSign(t[f2 + 1]) THEN f2 + 2 ELSE f2 + 1
            xabs == IF hasExp THEN DigitsValue(SubSeq(t, e1, Len(t))) ELSE 0
            X == IF hasExp /\ t[f2 + 1] = 45 THEN -xabs ELSE xabs
        IN  DecimalToF32(s, DigitsValue(SubSeq(t, p1, i2 - 1) \o frac), X - Len(frac))

\* number::complete::float
float(s, p) ==
    CHOOSE out \in { IF ~r.ok THEN r
                      ELSE Done(r.pos, f32_from_str(SubSeq(s, p, r.pos - 1)))
                    : r \in {recognize_float_or_exceptions(s, p)} } : TRUE

----------------------------------------------------------------------------
(* stl.rs: the ASCII parser.  Keywords as bytes. *)

KW_solid == <<115, 111, 108, 105, 100>>
KW_endsolid == <<101, 110, 100, 115, 111, 108, 105, 100>>
KW_facet == <<102, 97, 99, 101, 116>>
KW_normal == <<110, 111, 114, 109, 97, 108>>
KW_outer == <<111, 117, 116, 101, 114>>
KW_loop == <<108, 111, 111, 112>>
KW_vertex == <<118, 101, 114, 116, 101, 120>>
KW_endloop == <<101, 110, 100, 108, 111, 111, 112>>
KW_endfacet == <<101, 110, 100, 102, 97, 99, 101, 116>>

\* A parser written as a run of `let (input, x) = parser(input)?;` lines is
\* the sequence of its sub-parsers: each runs where the one before stopped,
\* the first error ends the run and is returned, and the values are kept in
\* order.  A step names a sub-parser, the whitespace parser it is preceded
\* by ("0": multispace0, "1": multispace1) and, for `tag`, the tag.  A
\* parser that calls another one in its run has the steps of the callee in
\* the place of the call.
T0(t) == [item |-> "tag", ws |-> "0", t |-> t]
T1(t) == [item |-> "tag", ws |-> "1", t |-> t]
Sub(item, ws) == [item |-> item, ws |-> ws, t |-> <<>>]

\* the whitespace a step is preceded by
Precede(ws, s, p) ==
    IF ws = "0" THEN multispace0(s, p) ELSE multispace1(s, p)

\* the sub-parser of a step at position p
Item(st, s, p) ==
    CASE st.item = "tag" -> tag(st.t, s, p)
      [] st.item = "float" -> float(s, p)
      [] OTHER -> take(0, s, p)

\* one step at position p: the whitespace, then the sub-parser
Step(st, s, p) ==
    CHOOSE out \in { IF ~w.ok THEN w ELSE Item(st, s, w.pos)
                    : w \in {Precede(st.ws, s, p)} } : TRUE

\* the `?` after a step: its error is returned, its value is kept
Glue(sofar, r) ==
    IF ~r.ok THEN r ELSE Done(r.pos, Append(sofar.val, r.val))

\* steps i..j, from what the steps before them gave: a failure, which is
\* passed on, or a position and the values so far.  A range of several
\* steps is its first half followed by its second half.
RECURSIVE Run(_, _, _, _, _)
Run(steps, s, i, j, sofar) ==
    IF sofar.ok
    THEN IF i = j
         THEN CHOOSE out \in { Glue(sofar, r) : r \in {Step(steps[i], s, sofar.pos)} } : TRUE
         ELSE Run(steps, s, (i + j) \div 2 + 1, j, Run(steps, s, i, (i + j) \div 2, sofar))
    ELSE sofar

\* all the steps of a parser, from position p
Steps(steps, s, p) == Run(steps, s, 1, Len(steps), Done(p, <<>>))

\* stl.rs:101-109: the steps of parse_vector3, and the value it returns
\* when its first step is step k of the run
parse_vector3 == <<Sub("float", "0"), Sub("float", "1"), Sub("float", "1")>>
parse_vector3_value(vals, k) == <<vals[k], vals[k + 1], vals[k + 2]>>

\* stl.rs:95-99: the steps of parse_vertex, and the value it returns when
\* its first step is step k of the run
parse_vertex == <<T0(KW_vertex)>> \o parse_vector3
parse_vertex_value(vals, k, normal) ==
    Vertex_new(vals[k + 1], vals[k + 2], vals[k + 3], normal[1], normal[2], normal[3])

\* stl.rs:81-90: the steps of parse_facet
parse_facet_steps ==
    <<T0(KW_facet), T1(KW_normal)>> \o parse_vector3
      \o <<T0(KW_outer), T1(KW_loop)>>
      \o parse_vertex \o parse_vertex \o parse_vertex
      \o <<T0(KW_endloop), T0(KW_endfacet)>>

\* stl.rs:92: the normal is the value of steps 3..5, the vertices begin at
\* steps 8, 12 and 16
parse_facet_value(vals) ==
    Triangle_new(parse_vertex_value(vals, 8, parse_vector3_value(vals, 3)),
                 parse_vertex_value(vals, 12, parse_vector3_value(vals, 3)),
                 parse_vertex_value(vals, 16, parse_vector3_value(vals, 3)))

\* stl.rs:80-93
parse_facet(s, p) ==
    CHOOSE out \in { IF ~r.ok THEN r ELSE Done(r.pos, parse_facet_value(r.val))
                    : r \in {Steps(parse_facet_steps, s, p)} } : TRUE

\* multi::many0(parse_facet): facets until the first recoverable error,
\* which is swallowed with the input rewound to where that facet began; a
\* Failure is passed on.
RECURSIVE many0_parse_facet(_, _, _)
many0_parse_facet(s, p, acc) ==
    CHOOSE out \in { IF f.ok THEN many0_parse_facet(s, f.pos, Append(acc, f.val))
                      ELSE IF f.kind = "Error" THEN Done(p, acc)
                      ELSE f
                    : f \in {parse_facet(s, p)} } : TRUE

\* the loop of stl.rs:72-75
RECURSIVE add_triangles(_, _)
add_triangles(mesh, ts) ==
    IF ts = <<>> THEN mesh ELSE add_triangles(add_triangle(mesh, Head(ts)), Tail(ts))

\* stl.rs:70-77: what follows many0, from the triangles it returned
parse_ascii_stl_end(s, triangles) ==
    IF ~triangles.ok THEN triangles
    ELSE CHOOSE out \in { IF ~r.ok THEN r
                           ELSE Done(r.pos, add_triangles(<<>>, triangles.val))
                         : r \in {Step(T0(KW_endsolid), s, triangles.pos)} } : TRUE

\* stl.rs:66-78; the second step is the "Optional name",
\* preceded(multispace0, take(0usize))
parse_ascii_stl_impl(s) ==
    CHOOSE out \in { parse_ascii_stl_end(s, triangles)
                    : triangles \in { IF ~r.ok THEN r ELSE many0_parse_facet(s, r.pos, <<>>)
                                      : r \in {Steps(<<T0(KW_solid), Sub("take0", "0")>>,
                                                     s, 1)} } } : TRUE

\* stl.rs:59-64
parse_ascii_stl(s) ==
    CHOOSE out \in { IF r.ok THEN Ok(r.val) ELSE Err("Failed to parse ASCII STL")
                    : r \in {parse_ascii_stl_impl(s)} } : TRUE

\* std::str::from_utf8(data).is_ok(): the bytes are a sequence of well-formed
\* UTF-8 characters.  Utf8Len(b) is the length of the character a byte
\* starts (0: it starts none).
Utf8Len(b) ==
    IF b < 128 THEN 1
    ELSE IF b >= 194 /\ b <= 223 THEN 2
    ELSE IF b >= 224 /\ b <= 239 THEN 3
    ELSE IF b >= 240 /\ b <= 244 THEN 4
    ELSE 0

IsContinuation(b) == b >= 128 /\ b <= 191

\* the character starting at p is complete and well formed
Utf8CharAt(s, p) ==
    LET b == s[p]
        n == Utf8Len(b)
        lo == IF b = 224 THEN 160 ELSE IF b = 240 THEN 144 ELSE 128
        hi == IF b = 237 THEN 159 ELSE IF b = 244 THEN 143 ELSE 191
    IN  /\ n > 0
        /\ p + n - 1 <= Len(s)
        /\ \A q \in (p + 1)..(p + n - 1) : IsContinuation(s[q])
        /\ n > 1 => s[p + 1] >= lo /\ s[p + 1] <= hi

\* a continuation byte belongs to a character that starts at most three
\* bytes before it; any other byte starts a character
Utf8ByteOk(s, p) ==
    IF IsContinuation(s[p])
    THEN \E k \in 1..3 :
            /\ p - k >= 1
            /\ Utf8Len(s[p - k]) > k
            /\ \A j \in 1..(k - 1) : IsContinuation(s[p - j])
    ELSE Utf8CharAt(s, p)

from_utf8_is_ok(s) == {p \in 1..Len(s) : ~Utf8ByteOk(s, p)} = {}

\* stl.rs:112-125
parse_stl(input, env) ==
    CHOOSE out \in { IF ascii.tag = "Ok" THEN ascii ELSE parse_binary_stl(input, env)
                    : ascii \in { IF Len(input) > 5 /\ SubSeq(input, 1, 5) = KW_solid
                                     /\ from_utf8_is_ok(input)
                                  THEN parse_ascii_stl(input)
                                  ELSE Err("not tried") } } : TRUE

----------------------------------------------------------------------------
(* Decoder inputs.  A triangle fixture is twelve numbers (the normal, then *)
(* three vertices), each given twice: as a decimal token and as the f32    *)
(* that token denotes.  The same fixture is written as a 50-byte binary    *)
(* record and as an ASCII facet.                                           *)

Num(tok, s, e, m) == [tok |-> tok, f |-> [s |-> s, e |-> e, m |-> m]]

TriangleKinds == {"flat", "skew", "inf", "nan"}
FiniteKinds == {"flat", "skew"}

Numbers(kind) ==
    LET zero == Num(<<48>>, 0, 0, 0)                       \* 0
        one == Num(<<49>>, 0, 127, 0)                      \* 1
        two == Num(<<50>>, 0, 128, 0)                      \* 2
    IN  IF kind = "flat" THEN
            \* every byte of its binary record is below 128
            <<zero, zero, two,  zero, zero, zero,  two, zero, zero,  zero, two, zero>>
        ELSE IF kind = "skew" THEN
            << Num(<<48, 46, 53>>, 0, 126, 0),             \* 0.5
               Num(<<45, 48, 46, 53>>, 1, 126, 0),         \* -0.5
               Num(<<49, 101, 48>>, 0, 127, 0),            \* 1e0
               Num(<<49, 46, 53>>, 0, 127, 4194304),       \* 1.5
               Num(<<45, 50>>, 1, 128, 0),                 \* -2
               Num(<<48, 46, 50, 53>>, 0, 125, 0),         \* 0.25
               Num(<<51>>, 0, 128, 4194304),               \* 3
               Num(<<48, 46, 49>>, 0, 123, 5033165),       \* 0.1
               Num(<<45, 49, 101, 49>>, 1, 130, 2097152),  \* -1e1
               Num(<<50, 46, 53, 101, 45, 49>>, 0, 125, 0),\* 2.5e-1
               Num(<<55>>, 0, 129, 6291456),               \* 7
               Num(<<49, 48, 48>>, 0, 133, 4718592) >>     \* 100
        ELSE IF kind = "inf" THEN
            <<zero, zero, one,  zero, zero, zero,
              Num(<<49, 101, 51, 57>>, 0, 255, 0),         \* 1e39: +infinity
              zero, zero,  zero, one, zero>>
        ELSE
            <<zero, zero, one,  zero, zero, zero,  one, zero, zero,  zero,
              Num(<<110, 97, 110>>, 0, 255, 4194304),      \* nan
              zero>>

\* the triangle a fixture describes: vertices in file order, each stamped
\* with the declared normal
FixtureTriangle(kind) ==
    LET n == Numbers(kind)
        v(k) == [position |-> <<n[3 * k + 1].f, n[3 * k + 2].f, n[3 * k + 3].f>>,
                 normal |-> <<n[1].f, n[2].f, n[3].f>>]
    IN  <<v(1), v(2), v(3)>>

FixtureMesh(kinds) == [i \in DOMAIN kinds |-> FixtureTriangle(kinds[i])]

\* f32::to_le_bytes
f32_to_le_bytes(f) ==
    << f.m % 256, (f.m \div 256) % 256, (f.e % 2) * 128 + (f.m \div 65536),
       f.s * 128 + (f.e \div 2) >>

\* the 50-byte record of a fixture; the attribute bytes are not zero
BinaryRecord(kind) ==
    Flatten([i \in 1..12 |-> f32_to_le_bytes(Numbers(kind)[i].f)]) \o <<7, 9>>

\* all sequences over S of length at most n
RECURSIVE SeqsUpTo(_, _)
SeqsUpTo(S, n) ==
    IF n = 0 THEN {<<>>}
    ELSE LET shorter == SeqsUpTo(S, n - 1)
         IN  shorter \cup {Append(q, x) : q \in {r \in shorter : Len(r) = n - 1}, x \in S}

\* 80-byte headers: zeros; "solid" and blanks; "solid endsolid" and blanks;
\* "solid endsolid", blanks and a byte that is not UTF-8
HeaderKinds == {"zero", "solid", "solid_endsolid", "solid_endsolid_ff"}

Header(h) ==
    IF h = "zero" THEN Repeat(0, 80)
    ELSE IF h = "solid" THEN KW_solid \o Repeat(32, 75)
    ELSE IF h = "solid_endsolid" THEN KW_solid \o <<32>> \o KW_endsolid \o Repeat(32, 66)
    ELSE KW_solid \o <<32>> \o KW_endsolid \o Repeat(32, 65) \o <<255>>

\* declared triangle counts, as the four little-endian bytes of the field:
\* 0..MaxTriangles+1, 65536 and 2^32-1
DeclaredCounts ==
    {<<n, 0, 0, 0>> : n \in 0..(MaxTriangles + 1)} \cup {<<0, 0, 1, 0>>, <<255, 255, 255, 255>>}

BinaryFile(h, count, kinds) ==
    Header(h) \o count \o Flatten([i \in DOMAIN kinds |-> BinaryRecord(kinds[i])])

BinarySources ==
    { [fmt |-> "binary", header |-> h, count |-> c, tris |-> k, cut |-> 0] :
        h \in HeaderKinds, c \in DeclaredCounts, k \in SeqsUpTo(TriangleKinds, MaxTriangles) }

\* inputs shorter than the 84 bytes of header and count
ShortLengths == {0, 5, 14, 83}

ShortSources ==
    { [fmt |-> "short", header |-> h, len |-> n] : h \in HeaderKinds, n \in ShortLengths }


\* the 21 tokens of a facet:
\*  1 facet 2 normal 3-5 nx ny nz 6 outer 7 loop
\*  8 vertex 9-11 x y z  12 vertex 13-15 x y z  16 vertex 17-19 x y z
\*  20 endloop 21 endfacet
FacetTokens(kind) ==
    LET n == Numbers(kind)
        vertex(k) == <<KW_vertex, n[3 * k + 1].tok, n[3 * k + 2].tok, n[3 * k + 3].tok>>
    IN  <<KW_facet, KW_normal, n[1].tok, n[2].tok, n[3].tok, KW_outer, KW_loop>>
        \o vertex(1) \o vertex(2) \o vertex(3) \o <<KW_endloop, KW_endfacet>>

KeywordPositions == {1, 2, 6, 7, 8, 12, 16, 20, 21}
NumberPositions == (1..21) \ KeywordPositions

\* ways to spoil one token of a facet: leave it out; replace it by a word
\* that is no keyword and no number ("abc"); for a keyword, change the case
\* of its first letter or put another keyword of the grammar in its place;
\* for a number, leave its exponent without digits ("1e")
KeywordFaults == {"missing", "garbage", "case", "endsolid", "facet"}
NumberFaults == {"missing", "garbage", "dangling_exponent"}

Intact == [facet |-> 0, tok |-> 0, how |-> "none"]

Faults(kinds) ==
    { [facet |-> i, tok |-> j, how |-> w] :
        i \in DOMAIN kinds, j \in 1..21,
        w \in KeywordFaults \cup NumberFaults }

FaultApplies(kinds, b) ==
    /\ b.tok \in KeywordPositions => b.how \in KeywordFaults
    /\ b.tok \in NumberPositions => b.how \in NumberFaults
    \* replacing `facet` by `facet` spoils nothing
    /\ ~(b.tok = 1 /\ b.how = "facet")

Spoil(t, how) ==
    IF how = "missing" THEN <<>>
    ELSE IF how = "garbage" THEN <<<<97, 98, 99>>>>
    ELSE IF how = "case" THEN <<[t EXCEPT ![1] = t[1] - 32]>>
    ELSE IF how = "endsolid" THEN <<KW_endsolid>>
    ELSE IF how = "facet" THEN <<KW_facet>>
    ELSE <<<<49, 101>>>>

\* the tokens of facet i of the document, with the fault applied if it is
\* in this facet
DocFacet(kinds, i, b) ==
    LET ts == FacetTokens(kinds[i])
    IN  IF b.facet # i THEN ts
        ELSE SubSeq(ts, 1, b.tok - 1) \o Spoil(ts[b.tok], b.how)
             \o SubSeq(ts, b.tok + 1, 21)

DocTokens(named, kinds, b) ==
    <<KW_solid>> \o (IF named THEN <<<<99, 117, 98, 101>>>> ELSE <<>>)
    \o Flatten([i \in DOMAIN kinds |-> DocFacet(kinds, i, b)])
    \o <<KW_endsolid>>

SepKinds == {"space", "newline"}
Sep(k) == IF k = "space" THEN <<32>> ELSE <<13, 10, 32, 32>>

RECURSIVE Join(_, _)
Join(ts, sep) ==
    IF Len(ts) = 1 THEN ts[1]
    ELSE Join(SubSeq(ts, 1, Len(ts) \div 2), sep) \o sep
           \o Join(SubSeq(ts, Len(ts) \div 2 + 1, Len(ts)), sep)

AsciiFile(named, kinds, sep, b) == Join(DocTokens(named, kinds, b), Sep(sep))

\* documents that follow the grammar, with and without a name, and
\* unnamed documents with one token of one facet spoiled
AsciiSources ==
    { [fmt |-> "ascii", named |-> nm, tris |-> k, sep |-> s, broken |-> Intact] :
        nm \in BOOLEAN, k \in SeqsUpTo(TriangleKinds, MaxTriangles), s \in SepKinds }
    \cup
    UNION { { [fmt |-> "ascii", named |-> FALSE, tris |-> k, sep |-> "space", broken |-> b] :
                b \in {x \in Faults(k) : FaultApplies(k, x)} } :
            k \in SeqsUpTo(FiniteKinds, MaxTriangles) }

Sources == BinarySources \cup ShortSources \cup AsciiSources

\* the bytes of an input
Build(s) ==
    IF s.fmt = "binary" THEN BinaryFile(s.header, s.count, s.tris)
    ELSE IF s.fmt = "short" THEN SubSeq(Header(s.header) \o <<0, 0, 0>>, 1, s.len)
    ELSE AsciiFile(s.named, s.tris, s.sep, s.broken)

----------------------------------------------------------------------------
(* The decoder as a state machine: an input is chosen, and then decoded    *)
(* with one of the three public entry points, shortened by a trailing      *)
(* byte, or, once decoded, written again in the other format.  The         *)
(* decoders are pure, so one call per input shows all they do.             *)

NoResult == [op |-> "none", out |-> Err("")]

\* the input follows its format: a binary file of exactly 84 + 50 N bytes
\* that declares N, or an ASCII document with no token spoiled
Conforms(s) ==
    \/ s.fmt = "binary" /\ s.cut = 0 /\ s.count = <<Len(s.tris), 0, 0, 0>>
    \/ s.fmt = "ascii" /\ s.broken = Intact

\* the same triangles in the other format
OtherFormat(s) ==
    IF s.fmt = "binary"
    THEN [fmt |-> "ascii", named |-> FALSE, tris |-> s.tris, sep |-> "space",
          broken |-> Intact]
    ELSE [fmt |-> "binary", header |-> "zero", count |-> <<Len(s.tris), 0, 0, 0>>,
          tris |-> s.tris, cut |-> 0]

\* the renderer before RasterRenderer::new has run
StlInit ==
    /\ src \in Sources
    /\ data = Build(src)
    /\ result = NoResult
    /\ prior = NoResult
    /\ width = 0
    /\ height = 0
    /\ depth_buffer = <<>>
    /\ char_buffer = <<>>
    /\ drawn = <<>>
    /\ last = [op |-> "idle", erased |-> 0]
    /\ rotation = [x |-> f32_zero(0), y |-> f32_zero(0), z |-> f32_zero(0)]
    /\ calls = <<>>
    /\ clip = <<>>
    /\ projected = <<>>
    /\ pc = "idle"
    /\ shown = <<>>
    /\ frame = <<>>
    /\ running = FALSE
    /\ face = <<>>
    /\ face_normal = <<>>
    /\ glyph = <<>>

ParseStl ==
    /\ result = NoResult
    /\ \E env \in Envs : result' = [op |-> "parse_stl", out |-> parse_stl(data, env)]
    /\ UNCHANGED <<data, src, prior>>
    /\ UNCHANGED <<renderVars, rotVars, projVars, loopVars, geoVars>>

ParseBinaryStl ==
    /\ result = NoResult
    /\ \E env \in Envs :
          result' = [op |-> "parse_binary_stl", out |-> parse_binary_stl(data, env)]
    /\ UNCHANGED <<data, src, prior>>
    /\ UNCHANGED <<renderVars, rotVars, projVars, loopVars, geoVars>>

\* parse_ascii_stl takes a &str: the bytes are UTF-8
ParseAsciiStl ==
    /\ result = NoResult
    /\ from_utf8_is_ok(data)
    /\ result' = [op |-> "parse_ascii_stl", out |-> parse_ascii_stl(data)]
    /\ UNCHANGED <<data, src, prior>>
    /\ UNCHANGED <<renderVars, rotVars, projVars, loopVars, geoVars>>

\* one trailing byte of a binary file is removed
TruncateInput ==
    /\ src.fmt = "binary"
    /\ src.cut < MaxTruncate
    /\ Len(data) > 0
    /\ data' = SubSeq(data, 1, Len(data) - 1)
    /\ src' = [src EXCEPT !.cut = @ + 1]
    /\ result' = NoResult
    /\ prior' = NoResult
    /\ UNCHANGED <<renderVars, rotVars, projVars, loopVars, geoVars>>

\* a decoded input that follows its format is written again in the other
\* format; what it decoded to is remembered
Reencode ==
    /\ Conforms(src)
    /\ result.op # "none"
    /\ prior = NoResult
    /\ src' = OtherFormat(src)
    /\ data' = Build(src')
    /\ prior' = result
    /\ result' = NoResult
    /\ UNCHANGED <<renderVars, rotVars, projVars, loopVars, geoVars>>

StlNext ==
    \/ ParseStl
    \/ ParseBinaryStl
    \/ ParseAsciiStl
    \/ TruncateInput
    \/ Reencode

SpecStl == StlInit /\ [][StlNext]_vars

----------------------------------------------------------------------------
(* Properties of the decoder.                                              *)

\* a binary file of exactly 84 + 50 N bytes that declares N
WellFormedBinary(s) == s.fmt = "binary" /\ s.cut = 0 /\ s.count = <<Len(s.tris), 0, 0, 0>>

\* the count a binary input declares in bytes 80..83
DeclaredCount(s) == u32_from_le_bytes(s.count[1], s.count[2], s.count[3], s.count[4])

\* a binary input below 84 bytes, or below 84 + 50 * count
TooShort(s) ==
    \/ s.fmt = "short"
    \/ /\ s.fmt = "binary"
       /\ \/ Len(data) < 84
          \/ DeclaredCount(s)[1] > 0
          \/ Len(data) < 84 + 50 * DeclaredCount(s)[2]

\* the positions of a mesh are those of the fixture's triangles, in order
SamePositions(mesh, kinds) ==
    /\ Len(mesh) = Len(kinds)
    /\ \A i \in DOMAIN kinds : \A j \in 1..3 :
          mesh[i][j].position = FixtureTriangle(kinds[i])[j].position

\* C1: parse_stl of a byte sequence of exactly 84 + 50 N bytes whose bytes
\* 80..83 declare N returns a mesh of exactly N triangles, in record order,
\* whatever the header and the records hold.
C1_RoundTripCount ==
    (result.op = "parse_stl" /\ WellFormedBinary(src)) =>
        /\ result.out.tag = "Ok"
        /\ SamePositions(result.out.mesh, src.tris)

\* C2: decoding a binary STL shorter than 84 bytes, or shorter than
\* 84 + 50 * count for the count it declares, returns a failure and never a
\* mesh; so does a well-formed file with trailing bytes removed.
C2_TruncationFails ==
    (result.op \in {"parse_stl", "parse_binary_stl"} /\ TooShort(src)) =>
        result.out.tag = "Err"

\* C3: parse_ascii_stl accepts every document of the grammar, with and
\* without a name after `solid`, and returns one triangle per facet, in
\* facet order.
C3_GrammarAccepted ==
    (result.op = "parse_ascii_stl" /\ src.fmt = "ascii" /\ src.broken = Intact) =>
        /\ result.out.tag = "Ok"
        /\ result.out.mesh = FixtureMesh(src.tris)

\* C4: every mesh a decoder returns has only finite vertex positions.
C4_FinitePositions ==
    result.out.tag = "Ok" =>
        \A i \in DOMAIN result.out.mesh : \A j \in 1..3 : \A k \in 1..3 :
            IsFinite(result.out.mesh[i][j].position[k])

\* C5: parse_stl returns a mesh or a failure value for every input; it never
\* panics or aborts, whatever count the input declares.
C5_NeverPanics ==
    result.op = "parse_stl" => result.out.tag \in {"Ok", "Err"}

\* the three conditions under which parse_stl takes the ASCII decoder's mesh
AsciiDecides(input) ==
    /\ Len(input) >= 5
    /\ SubSeq(input, 1, 5) = KW_solid
    /\ from_utf8_is_ok(input)
    /\ parse_ascii_stl(input).tag = "Ok"

\* C6: parse_stl returns the ASCII decoder's mesh when the input begins with
\* `solid`, is UTF-8 and parses as ASCII, and otherwise the result of
\* parse_binary_stl on the same bytes; a well-formed binary file, its header
\* beginning with `solid` or not, is decoded as binary, to its records.
C6_FormatDetection ==
    result.op = "parse_stl" =>
        /\ AsciiDecides(data) => result.out = parse_ascii_stl(data)
        /\ ~AsciiDecides(data) => \E env \in Envs : result.out = parse_binary_stl(data, env)
        /\ WellFormedBinary(src) => result.out = Ok(FixtureMesh(src.tris))

\* C7: parse_ascii_stl of a document in which one keyword or number of one
\* facet is missing or wrong returns a failure, never a mesh of the facets
\* before it.
C7_AllOrNothing ==
    (result.op = "parse_ascii_stl" /\ src.fmt = "ascii" /\ src.broken # Intact) =>
        result.out.tag = "Err"

\* a result of the decoder written for the format of s
DecodedAs(r, fmt) ==
    \/ fmt = "binary" /\ r.op = "parse_binary_stl"
    \/ fmt = "ascii" /\ r.op = "parse_ascii_stl"

\* the other of the two formats
Opposite(fmt) == IF fmt = "binary" THEN "ascii" ELSE "binary"

\* the same triangles were decoded from both encodings, each by the decoder
\* of its format, and their values are numbers (NaN equals nothing)
BothDecoded ==
    /\ prior.op # "none"
    /\ DecodedAs(prior, Opposite(src.fmt))
    /\ DecodedAs(result, src.fmt)
    /\ prior.out.tag = "Ok"
    /\ result.out.tag = "Ok"
    /\ \A i \in DOMAIN src.tris : src.tris[i] # "nan"

\* C8: triangles encoded as binary records and as ASCII facets with equal
\* values decode to equal positions in the same vertex order and equal
\* normals, and every vertex carries the normal the file declares.
C8_Equivalence ==
    BothDecoded =>
        /\ Len(result.out.mesh) = Len(src.tris)
        /\ Len(prior.out.mesh) = Len(src.tris)
        /\ \A i \in DOMAIN src.tris : \A j \in 1..3 :
              /\ result.out.mesh[i][j].position = prior.out.mesh[i][j].position
              /\ result.out.mesh[i][j].normal = prior.out.mesh[i][j].normal
              /\ result.out.mesh[i][j].normal =
                    <<Numbers(src.tris[i])[1].f, Numbers(src.tris[i])[2].f,
                      Numbers(src.tris[i])[3].f>>

\* both encodings of two different triangles have been decoded
C8_Witness ==
    /\ BothDecoded
    /\ Len(src.tris) = 2
    /\ src.tris[1] # src.tris[2]

----------------------------------------------------------------------------
(* The rasterizer, tw3d-terminal/src/renderer.rs.  A screen coordinate is  *)
(* <<x, y, z>> with x and y counted in half pixels, so that a pixel centre *)
(* x + 0.5 is the integer 2x + 1, and with z an integer Z(n), Inf or       *)
(* NegInf.                                                                 *)
(* A barycentric weight is kept as its numerator over a common positive    *)
(* denominator and a depth as a fraction in lowest terms.  The triangles   *)
(* drawn have areas that are powers of two and small integer depths: each  *)
(* f32 operation of the code is then exact and equals the arithmetic here. *)

\* renderer.rs:11
LUMINOSITY_RAMP == <<" ", ".", ":", "-", "=", "+", "*", "#", "%", "@">>

\* an f32 depth: the fraction n/d in lowest terms, or an infinity, or NaN
Frac(n, d) == [k |-> "num", n |-> n \div Gcd(n, d), d |-> d \div Gcd(n, d)]
Z(n) == Frac(n, 1)
Inf == [k |-> "inf", n |-> 1, d |-> 0]
NegInf == [k |-> "inf", n |-> -1, d |-> 0]
NaN == [k |-> "nan", n |-> 0, d |-> 0]

\* `a < b` on f32 values: false if either is NaN
f32_lt(a, b) ==
    IF a = NaN \/ b = NaN THEN FALSE
    ELSE IF a = Inf \/ b = NegInf THEN FALSE
    ELSE IF a = NegInf \/ b = Inf THEN TRUE
    ELSE a.n * b.d < b.n * a.d

\* renderer.rs:22-30
AsciiRenderer_new(w, h) ==
    [width |-> w, height |-> h,
     depth_buffer |-> [i \in 1..(w * h) |-> Inf],
     char_buffer |-> [i \in 1..(w * h) |-> " "]]

\* clear that resets the depth buffer alone
clear_depth_only(r) ==
    [r EXCEPT !.depth_buffer = [i \in 1..Len(r.depth_buffer) |-> Inf]]

\* clear that resets the glyphs alone
clear_chars_only(r) ==
    [r EXCEPT !.char_buffer = [i \in 1..Len(r.char_buffer) |-> " "]]

\* renderer.rs:32-37
clear(r) ==
    [r EXCEPT !.depth_buffer = [i \in 1..Len(r.depth_buffer) |-> Inf],
              !.char_buffer = [i \in 1..Len(r.depth_buffer) |-> " "]]

\* renderer.rs:148-165, for the triangle v0 v1 v2 and the centre of pixel
\* (x, y): None if the doubled area is below 1e-6 (in half pixels: zero),
\* else the numerators of w0, w1, w2 over the denominator d > 0
barycentric(v0, v1, v2, x, y) ==
    LET px == 2 * x + 1
        py == 2 * y + 1
        denom == (v1[2] - v2[2]) * (v0[1] - v2[1]) + (v2[1] - v1[1]) * (v0[2] - v2[2])
        n0 == (v1[2] - v2[2]) * (px - v2[1]) + (v2[1] - v1[1]) * (py - v2[2])
        n1 == (v2[2] - v0[2]) * (px - v2[1]) + (v0[1] - v2[1]) * (py - v2[2])
        sg == IF denom > 0 THEN 1 ELSE -1
    IN  IF denom = 0 THEN [some |-> FALSE]
        ELSE [some |-> TRUE, d |-> sg * denom,
              w |-> <<sg * n0, sg * n1, sg * (denom - n0 - n1)>>]

\* w0 * v0.2 + w1 * v1.2 + w2 * v2.2 for weights that are not negative:
\* 0 * infinity and infinity - infinity are NaN
interpolate(b, z) ==
    LET infinite == {i \in 1..3 : z[i].k = "inf"}
        sum == b.w[1] * z[1].n + b.w[2] * z[2].n + b.w[3] * z[3].n
    IN  IF \E i \in 1..3 : z[i] = NaN THEN NaN
        ELSE IF \E i \in infinite : b.w[i] = 0 THEN NaN
        ELSE IF \E i, j \in infinite : z[i] # z[j] THEN NaN
        ELSE IF infinite # {} THEN z[Only({i \in infinite : \A j \in infinite : i <= j})]
        ELSE Frac(sum, b.d)

floor2(a) == a \div 2
ceil2(a) == (a + 1) \div 2

\* a bounding box clipped to width and height in place of width - 1 and
\* height - 1
bounding_box_to_size(r, coords) ==
    LET x(i) == coords[i][1]
        y(i) == coords[i][2]
    IN  [min_x |-> Max(floor2(Min(Min(x(1), x(2)), x(3))), 0),
         max_x |-> Min(ceil2(Max(Max(x(1), x(2)), x(3))), r.width),
         min_y |-> Max(floor2(Min(Min(y(1), y(2)), y(3))), 0),
         max_y |-> Min(ceil2(Max(Max(y(1), y(2)), y(3))), r.height)]

\* renderer.rs:82-92, the clipped bounding box
bounding_box(r, coords) ==
    LET x(i) == coords[i][1]
        y(i) == coords[i][2]
    IN  [min_x |-> Max(floor2(Min(Min(x(1), x(2)), x(3))), 0),
         max_x |-> Min(ceil2(Max(Max(x(1), x(2)), x(3))), r.width - 1),
         min_y |-> Max(floor2(Min(Min(y(1), y(2)), y(3))), 0),
         max_y |-> Min(ceil2(Max(Max(y(1), y(2)), y(3))), r.height - 1)]

\* renderer.rs:100-108: the barycentric weights of the pixel exist and none
\* is negative
covers(coords, x, y) ==
    LET b == barycentric(coords[1], coords[2], coords[3], x, y)
    IN  b.some /\ b.w[1] >= 0 /\ b.w[2] >= 0 /\ b.w[3] >= 0

\* renderer.rs:110
depth_at(coords, x, y) ==
    interpolate(barycentric(coords[1], coords[2], coords[3], x, y),
                <<coords[1][3], coords[2][3], coords[3][3]>>)

\* depth_test with `<=` in place of `<`
depth_test_or_equal(depth, stored) == f32_lt(depth, stored) \/ depth = stored

\* renderer.rs:113-116
depth_test(depth, stored) == f32_lt(depth, stored)

\* renderer.rs:95-118 for one pixel of the loops: whether it is written
writes(r, coords, x, y) ==
    /\ x >= bounding_box(r, coords).min_x
    /\ x <= bounding_box(r, coords).max_x
    /\ y >= bounding_box(r, coords).min_y
    /\ y <= bounding_box(r, coords).max_y
    /\ covers(coords, x, y)
    /\ depth_test(depth_at(coords, x, y), r.depth_buffer[y * r.width + x + 1])

\* renderer.rs:95-113: the values of idx that the loops compute, and read
\* the depth buffer at (from 0)
indexes(r, coords) ==
    { y * r.width + x :
        <<x, y>> \in { p \in (bounding_box(r, coords).min_x..bounding_box(r, coords).max_x)
                            \X (bounding_box(r, coords).min_y..bounding_box(r, coords).max_y) :
                        covers(coords, p[1], p[2]) } }

\* renderer.rs:79-120.  Buffer entry i (from 1) is pixel x = (i - 1) mod
\* width of row y = (i - 1) div width; the loops visit a pixel once.
rasterize_triangle(r, coords, character) ==
    Only({ [r EXCEPT
              !.depth_buffer = [i \in 1..Len(r.depth_buffer) |->
                   IF i \in written
                   THEN depth_at(coords, (i - 1) % r.width, (i - 1) \div r.width)
                   ELSE r.depth_buffer[i]],
              !.char_buffer = [i \in 1..Len(r.char_buffer) |->
                   IF i \in written THEN character ELSE r.char_buffer[i]]]
         : written \in {{i \in 1..Len(r.depth_buffer) :
                writes(r, coords, (i - 1) % r.width, (i - 1) \div r.width)}} })

\* renderer.rs:68-74, for a brightness given in quarters: the ramp index is
\* brightness * 9 cut to an integer, at most 9 (from 0), and the glyph is
\* the ramp's entry there
shade(brightness4) == LUMINOSITY_RAMP[Min((brightness4 * 9) \div 4, 9) + 1]

\* project_to_screen returned None for the vertex
None == <<>>

\* renderer.rs:45-77.  A triangle is given by what render_triangle computes
\* from it: proj, the result of project_to_screen for each vertex (None or
\* a screen coordinate), and the brightness of its face, in quarters.
render_triangle(r, triangle) ==
    IF \E i \in 1..3 : triangle.proj[i] = None THEN r
    ELSE rasterize_triangle(r, triangle.proj, shade(triangle.brightness4))

\* render_mesh leaving the loop at the first triangle a vertex of which the
\* projection rejects
RECURSIVE render_mesh_until_clipped(_, _)
render_mesh_until_clipped(r, mesh) ==
    IF mesh = <<>> THEN r
    ELSE IF \E i \in 1..3 : Head(mesh).proj[i] = None THEN r
    ELSE render_mesh_until_clipped(render_triangle(r, Head(mesh)), Tail(mesh))

\* renderer.rs:39-43
RECURSIVE render_mesh(_, _)
render_mesh(r, mesh) ==
    IF mesh = <<>> THEN r
    ELSE render_mesh(render_triangle(r, Head(mesh)), Tail(mesh))

\* the calls of rasterize_triangle that render_mesh makes, in order
RECURSIVE rasterized(_)
rasterized(mesh) ==
    IF mesh = <<>> THEN <<>>
    ELSE (IF \E i \in 1..3 : Head(mesh).proj[i] = None THEN <<>>
          ELSE <<[coords |-> Head(mesh).proj,
                  character |-> shade(Head(mesh).brightness4)]>>)
         \o rasterized(Tail(mesh))

----------------------------------------------------------------------------
(* The renderer as a state machine: a renderer of some size is built, and  *)
(* then cleared or given a mesh to render, in any order.  drawn keeps the  *)
(* calls of rasterize_triangle since the buffers were last cleared and     *)
(* last the operation that ran last.                                       *)

MaxDim == 2
MaxDraws == 3
MaxMesh == 2

\* a right triangle with legs of two pixels at the top left corner
Corner(z) == <<<<0, 0, z>>, <<4, 0, z>>, <<0, 4, z>>>>
\* a triangle over the whole of every buffer
Wide(z0, z1, z2) == <<<<-2, -2, z0>>, <<14, -2, z1>>, <<-2, 14, z2>>>>

FixtureTriangles ==
    { [proj |-> Corner(Z(1)), brightness4 |-> 4],
      \* the same corner, farther, wound the other way
      [proj |-> <<<<0, 0, Z(2)>>, <<0, 4, Z(2)>>, <<4, 0, Z(2)>>>>, brightness4 |-> 2],
      [proj |-> Wide(Z(1), Z(1), Z(1)), brightness4 |-> 2],
      \* a sloping face turned away from the light
      [proj |-> Wide(Z(0), Z(4), Z(4)), brightness4 |-> 0],
      \* one vertex infinitely far
      [proj |-> <<<<0, 0, Inf>>, <<4, 0, Z(1)>>, <<0, 4, Z(1)>>>>, brightness4 |-> 4],
      [proj |-> Corner(NegInf), brightness4 |-> 1],
      \* no area
      [proj |-> <<<<0, 0, Z(1)>>, <<2, 2, Z(1)>>, <<4, 4, Z(1)>>>>, brightness4 |-> 4],
      \* the second vertex is rejected by the projection
      [proj |-> <<<<0, 0, Z(1)>>, None, <<0, 4, Z(1)>>>>, brightness4 |-> 4] }

Meshes == SeqsUpTo(FixtureTriangles, MaxMesh)

\* the triangles of a mesh that render_triangle leaves at renderer.rs:56
clipped(mesh) == {i \in 1..Len(mesh) : \E v \in 1..3 : mesh[i].proj[v] = None}

renderer == [width |-> width, height |-> height,
             depth_buffer |-> depth_buffer, char_buffer |-> char_buffer]

\* buffer entries that differ from those of a new renderer
Touched(r) ==
    Cardinality({i \in 1..Len(r.depth_buffer) :
                    r.depth_buffer[i] # Inf \/ r.char_buffer[i] # " "})

RenderInit ==
    /\ \E w \in 0..MaxDim, h \in 0..MaxDim :
          /\ width = w
          /\ height = h
          /\ depth_buffer = AsciiRenderer_new(w, h).depth_buffer
          /\ char_buffer = AsciiRenderer_new(w, h).char_buffer
    /\ drawn = <<>>
    /\ last = [op |-> "new", erased |-> 0]
    /\ src = [fmt |-> "none"]
    /\ data = <<>>
    /\ result = NoResult
    /\ prior = NoResult
    /\ rotation = [x |-> f32_zero(0), y |-> f32_zero(0), z |-> f32_zero(0)]
    /\ calls = <<>>
    /\ clip = <<>>
    /\ projected = <<>>
    /\ pc = "idle"
    /\ shown = <<>>
    /\ frame = <<>>
    /\ running = FALSE
    /\ face = <<>>
    /\ face_normal = <<>>
    /\ glyph = <<>>

Clear ==
    /\ \E after \in {clear(renderer)} :
          /\ depth_buffer' = after.depth_buffer
          /\ char_buffer' = after.char_buffer
    /\ drawn' = <<>>
    /\ last' = [op |-> "clear", erased |-> Touched(renderer)]
    /\ UNCHANGED <<width, height>>
    /\ UNCHANGED <<stlVars, rotVars, projVars, loopVars, geoVars>>

RenderMesh ==
    /\ \E mesh \in Meshes :
          /\ Len(drawn) + Len(rasterized(mesh)) <= MaxDraws
          /\ \E after \in {render_mesh(renderer, mesh)} :
                /\ depth_buffer' = after.depth_buffer
                /\ char_buffer' = after.char_buffer
          /\ drawn' = drawn \o rasterized(mesh)
          /\ last' = [op |-> "render_mesh", erased |-> 0,
                      triangles |-> Len(mesh), clipped |-> clipped(mesh)]
    /\ UNCHANGED <<width, height>>
    /\ UNCHANGED <<stlVars, rotVars, projVars, loopVars, geoVars>>

RenderNext ==
    \/ Clear
    \/ RenderMesh

SpecRender == RenderInit /\ [][RenderNext]_vars

----------------------------------------------------------------------------
(* Properties of the rasterizer.                                           *)

Pixels == {<<x, y>> : x \in 0..(width - 1), y \in 0..(height - 1)}
Entry(p) == p[2] * width + p[1] + 1

\* the depth of drawn triangle i at pixel p
DepthOf(i, p) == depth_at(drawn[i].coords, p[1], p[2])

\* the drawn triangles that cover pixel p with a depth below +infinity
Nearer(p) ==
    {i \in DOMAIN drawn :
        covers(drawn[i].coords, p[1], p[2]) /\ f32_lt(DepthOf(i, p), Inf)}

\* the drawn triangles that cover pixel p with a depth that is a number
Covering(p) ==
    {i \in DOMAIN drawn :
        covers(drawn[i].coords, p[1], p[2]) /\ DepthOf(i, p) # NaN}

\* the triangles of S whose depth at p none of S is below, and the first
\* drawn among them
Nearest(S, p) == {i \in S : \A j \in S : ~f32_lt(DepthOf(j, p), DepthOf(i, p))}
Earliest(S) == Only({i \in S : \A j \in S : i <= j})

\* pixel p holds the smallest depth of the triangles S and the glyph of
\* the earliest of S that has it, or +infinity and a blank if S is empty
Holds(S, p) ==
    IF S = {}
    THEN depth_buffer[Entry(p)] = Inf /\ char_buffer[Entry(p)] = " "
    ELSE /\ depth_buffer[Entry(p)] = DepthOf(Earliest(Nearest(S, p)), p)
         /\ char_buffer[Entry(p)] = drawn[Earliest(Nearest(S, p))].character

\* C9: since the last clear, every pixel holds the smallest interpolated
\* depth among the triangles that cover it with a depth below +infinity
\* (+infinity if there is none) and the glyph of the earliest drawn of
\* those with that depth (blank if there is none).
C9_DepthOcclusion == \A p \in Pixels : Holds(Nearer(p), p)

\* C9 as stated: the same among all triangles that cover the pixel.
C9_AnyCoveringTriangle == \A p \in Pixels : Holds(Covering(p), p)

\* a pixel covered by three triangles: the first is the farthest, and the
\* second and the third are equally near and differ in glyph
C9_Witness ==
    \E p \in Pixels :
        /\ Cardinality(Nearer(p)) = 3
        /\ Nearest(Nearer(p), p) = {2, 3}
        /\ drawn[2].character # drawn[3].character
        /\ char_buffer[Entry(p)] = drawn[2].character

\* C10: after clear() every depth entry is +infinity and every glyph is
\* blank: the buffers are those of a new renderer of the same size.
C10_FullFrameClear ==
    last.op = "clear" => renderer = AsciiRenderer_new(width, height)

\* clear() has run on a buffer of 2 x 2 or more with every entry written
C10_Witness ==
    /\ last.op = "clear"
    /\ width >= 2
    /\ height >= 2
    /\ last.erased = width * height

----------------------------------------------------------------------------
(* f32 arithmetic on the IEEE-754 fields: each operation gives the f32     *)
(* nearest to the exact result, ties to the even significand, as the       *)
(* hardware does.  All intermediate integers stay below 2^31.              *)

IsNaN(f) == f.e = 255 /\ f.m # 0
IsZero(f) == f.e = 0 /\ f.m = 0

\* a finite f32 is (-1)^s * Sig * 2^(Ex - 150)
Sig(f) == IF f.e = 0 THEN f.m ELSE 8388608 + f.m
Ex(f) == IF f.e = 0 THEN 1 ELSE f.e

\* the position of the highest set bit of T, 0 < T < 2^31
TopBit(T) == CHOOSE t \in 0..30 : T \div 2 ^ t = 1

\* the f32 nearest to (-1)^s * T * 2^(x - 150), for an integer 0 <= T < 2^31
F32Round(s, T, x) ==
    IF T = 0 THEN f32_zero(s)
    ELSE
        LET RoundAt(ex) ==
                \* T * 2^(x - 150) = (T / 2^(ex - x)) * 2^(ex - 150)
                LET sh == ex - x
                    q == IF sh <= 0 THEN T * 2 ^ (-sh)
                         ELSE IF sh > 30 THEN 0 ELSE T \div 2 ^ sh
                    up == IF sh <= 0 \/ sh > 31 THEN FALSE
                          ELSE IF sh = 31 THEN T > 1073741824
                          ELSE \/ T % 2 ^ sh > 2 ^ (sh - 1)
                               \/ T % 2 ^ sh = 2 ^ (sh - 1) /\ q % 2 = 1
                    Pack(q1) ==
                        IF q1 = 16777216
                        THEN (IF ex + 1 >= 255 THEN f32_infinity(s)
                              ELSE [s |-> s, e |-> ex + 1, m |-> 0])
                        ELSE IF ex >= 255 THEN f32_infinity(s)
                        ELSE IF q1 < 8388608 THEN [s |-> s, e |-> 0, m |-> q1]
                        ELSE [s |-> s, e |-> ex, m |-> q1 - 8388608]
                IN  Pack(IF up THEN q + 1 ELSE q)
        IN  RoundAt(Max(x + TopBit(T) - 23, 1))

F32Neg(a) == [a EXCEPT !.s = 1 - @]
F32Abs(a) == [a EXCEPT !.s = 0]

\* a + b
F32Add(a, b) ==
    IF IsNaN(a) \/ IsNaN(b) THEN f32_nan
    ELSE IF a.e = 255 /\ b.e = 255 THEN (IF a.s = b.s THEN a ELSE f32_nan)
    ELSE IF a.e = 255 THEN a
    ELSE IF b.e = 255 THEN b
    ELSE
        LET Sum(big, small) ==
                \* three more bits below the significand of the larger; the
                \* smaller is shifted under it, and what falls off its end is
                \* kept in the last bit
                LET gap == Ex(big) - Ex(small)
                    v == Sig(small) * 8
                    S == IF gap > 27 THEN (IF v = 0 THEN 0 ELSE 1)
                         ELSE IF v % 2 ^ gap # 0 /\ (v \div 2 ^ gap) % 2 = 0
                         THEN (v \div 2 ^ gap) + 1
                         ELSE v \div 2 ^ gap
                    T == IF big.s = small.s THEN Sig(big) * 8 + S ELSE Sig(big) * 8 - S
                IN  F32Round(IF T = 0 THEN (IF a.s = 1 /\ b.s = 1 THEN 1 ELSE 0) ELSE big.s,
                             T, Ex(big) - 3)
        IN  IF Ex(a) < Ex(b) \/ (Ex(a) = Ex(b) /\ Sig(a) < Sig(b))
            THEN Sum(b, a) ELSE Sum(a, b)

\* a - b
F32Sub(a, b) == F32Add(a, F32Neg(b))

\* a finite f32 that is not zero as <<A, ex>>: |f| = A * 2^(ex - 150) with
\* 2^23 <= A < 2^24
Normal(f) == <<Sig(f) * 2 ^ (23 - TopBit(Sig(f))), Ex(f) - (23 - TopBit(Sig(f)))>>

\* a * b
F32Mul(a, b) ==
    IF IsNaN(a) \/ IsNaN(b) THEN f32_nan
    ELSE IF (a.e = 255 /\ IsZero(b)) \/ (IsZero(a) /\ b.e = 255) THEN f32_nan
    ELSE IF a.e = 255 \/ b.e = 255 THEN f32_infinity((a.s + b.s) % 2)
    ELSE IF IsZero(a) \/ IsZero(b) THEN f32_zero((a.s + b.s) % 2)
    ELSE
        LET Product(A, B) ==
                \* the 48-bit product A[1] * B[1] from 12-bit halves: its bits
                \* from 2^20 up, and whether any bit below is set
                LET mid == (A[1] \div 4096) * (B[1] % 4096)
                             + (A[1] % 4096) * (B[1] \div 4096)
                             + (((A[1] % 4096) * (B[1] % 4096)) \div 4096)
                    low == (mid % 4096) * 4096 + (((A[1] % 4096) * (B[1] % 4096)) % 4096)
                    hi == (A[1] \div 4096) * (B[1] \div 4096) + (mid \div 4096)
                IN  F32Round((a.s + b.s) % 2,
                             (hi * 16 + (low \div 1048576)) * 2
                               + (IF low % 1048576 # 0 THEN 1 ELSE 0),
                             A[2] + B[2] - 131)
        IN  Product(Normal(a), Normal(b))

\* a / b
F32Div(a, b) ==
    IF IsNaN(a) \/ IsNaN(b) THEN f32_nan
    ELSE IF (a.e = 255 /\ b.e = 255) \/ (IsZero(a) /\ IsZero(b)) THEN f32_nan
    ELSE IF a.e = 255 \/ IsZero(b) THEN f32_infinity((a.s + b.s) % 2)
    ELSE IF b.e = 255 \/ IsZero(a) THEN f32_zero((a.s + b.s) % 2)
    ELSE
        LET Quotient(A, B) ==
                \* long division, seven bits at a time: 28 bits after the
                \* point, and whether a remainder is left
                LET r0 == A[1] % B[1]
                    r1 == (r0 * 128) % B[1]
                    r2 == (r1 * 128) % B[1]
                    r3 == (r2 * 128) % B[1]
                    Q == (A[1] \div B[1]) * 268435456
                           + ((r0 * 128) \div B[1]) * 2097152
                           + ((r1 * 128) \div B[1]) * 16384
                           + ((r2 * 128) \div B[1]) * 128
                           + ((r3 * 128) \div B[1])
                IN  F32Round((a.s + b.s) % 2,
                             Q * 2 + (IF (r3 * 128) % B[1] # 0 THEN 1 ELSE 0),
                             A[2] - B[2] + 121)
        IN  Quotient(Normal(a), Normal(b))

\* a < b: false when either is NaN; the two zeros are equal
F32Lt(a, b) ==
    LET Smaller(p, q) == p.e < q.e \/ (p.e = q.e /\ p.m < q.m)
    IN  IF IsNaN(a) \/ IsNaN(b) THEN FALSE
        ELSE IF IsZero(a) /\ IsZero(b) THEN FALSE
        ELSE IF a.s # b.s THEN a.s = 1
        ELSE IF a.s = 0 THEN Smaller(a, b)
        ELSE Smaller(b, a)

\* a > b
F32Gt(a, b) == F32Lt(b, a)

\* `n as f32` for an unsigned integer below 2^31
F32FromInt(n) == F32Round(0, n, 150)

----------------------------------------------------------------------------
(* tw3d-core/src/transform.rs: RotationState.                              *)

\* an f32 literal of the source, n/d in lowest decimal terms: the f32
\* nearest to it (n and d are exact in f32, the division rounds once)
F32Lit(n, d) == F32Div(F32FromInt(n), F32FromInt(d))

\* transform.rs:13-15
RotationState_new(x, y, z) == [x |-> x, y |-> y, z |-> z]

\* transform.rs:17-23
RotationState_zero == RotationState_new(f32_zero(0), f32_zero(0), f32_zero(0))

\* rotate that stores the deltas instead of adding them
rotate_overwrite(r, dx, dy, dz) == [x |-> dx, y |-> dy, z |-> dz]

\* transform.rs:26-30
rotate(r, dx, dy, dz) ==
    [x |-> F32Add(r.x, dx), y |-> F32Add(r.y, dy), z |-> F32Add(r.z, dz)]

\* the deltas of the rotate calls of tw3d-terminal/src/lib.rs:101-126:
\* 0.1, 0.01 and 0.015
Tenth == F32Lit(1, 10)
Hundredth == F32Lit(1, 100)
Hundredth15 == F32Lit(15, 1000)
Still == f32_zero(0)

\* lib.rs:100-117, the deltas of the keys
KeyDeltas ==
    [up |-> <<Tenth, Still, Still>>,
     down |-> <<F32Neg(Tenth), Still, Still>>,
     left |-> <<Still, F32Neg(Tenth), Still>>,
     right |-> <<Still, Tenth, Still>>,
     e |-> <<Still, Still, Tenth>>,
     r |-> <<Still, Still, F32Neg(Tenth)>>]

\* lib.rs:126, the deltas of update
UpdateDelta == <<Hundredth, Hundredth15, Still>>

Deltas == {KeyDeltas[k] : k \in DOMAIN KeyDeltas} \cup {UpdateDelta}

\* most rotate calls in a run of the rotation state
MaxRotations == 3

RotationInit ==
    /\ rotation = RotationState_zero
    /\ calls = <<>>
    /\ clip = <<>>
    /\ projected = <<>>
    /\ pc = "idle"
    /\ shown = <<>>
    /\ frame = <<>>
    /\ running = FALSE
    /\ face = <<>>
    /\ face_normal = <<>>
    /\ glyph = <<>>
    /\ src = [fmt |-> "none"]
    /\ data = <<>>
    /\ result = NoResult
    /\ prior = NoResult
    /\ width = 0
    /\ height = 0
    /\ depth_buffer = <<>>
    /\ char_buffer = <<>>
    /\ drawn = <<>>
    /\ last = [op |-> "idle", erased |-> 0]

Rotate ==
    /\ Len(calls) < MaxRotations
    /\ \E d \in Deltas :
          /\ rotation' = rotate(rotation, d[1], d[2], d[3])
          /\ calls' = Append(calls, d)
    /\ UNCHANGED <<stlVars, renderVars, projVars, loopVars, geoVars>>

RotationNext == Rotate

SpecRotation == RotationInit /\ [][RotationNext]_vars

----------------------------------------------------------------------------
(* Properties of RotationState::rotate.                                     *)

\* the angle accumulated from zero() over the deltas of one axis, added in
\* call order, each addition rounded as transform.rs:27-29 rounds it
RECURSIVE Accumulate(_, _)
Accumulate(ds, axis) ==
    IF ds = <<>>
    THEN f32_zero(0)
    ELSE F32Add(Accumulate(SubSeq(ds, 1, Len(ds) - 1), axis), ds[Len(ds)][axis])

Angles(ds) == RotationState_new(Accumulate(ds, 1), Accumulate(ds, 2), Accumulate(ds, 3))

\* an f32 of magnitude below 2 as a whole number of 2^-30, or "inexact" when
\* it is not one
Units(f) ==
    IF IsNaN(f) \/ Ex(f) > 150 THEN "inexact"
    ELSE IF Ex(f) >= 120 THEN (IF f.s = 1 THEN -1 ELSE 1) * Sig(f) * 2 ^ (Ex(f) - 120)
    ELSE IF Ex(f) < 96 THEN (IF Sig(f) = 0 THEN 0 ELSE "inexact")
    ELSE IF Sig(f) % 2 ^ (120 - Ex(f)) = 0
         THEN (IF f.s = 1 THEN -1 ELSE 1) * (Sig(f) \div 2 ^ (120 - Ex(f)))
         ELSE "inexact"

\* the exact sum of the deltas of one axis, in units of 2^-30
RECURSIVE ExactSum(_, _)
ExactSum(ds, axis) ==
    IF ds = <<>> THEN 0
    ELSE ExactSum(SubSeq(ds, 1, Len(ds) - 1), axis) + Units(ds[Len(ds)][axis])

Orders(n) == {p \in [1..n -> 1..n] : \A i, j \in 1..n : p[i] = p[j] => i = j}

Reordered(ds, p) == [i \in 1..Len(ds) |-> ds[p[i]]]

\* the values of two f32 are the same number (+0 and -0 are one number)
SameNumber(f, g) == Units(f) = Units(g)

\* C12 as stated: each angle equals the sum of the deltas of its own axis,
\* whatever the order of the calls
C12_ExactSum ==
    /\ Units(rotation.x) = ExactSum(calls, 1)
    /\ Units(rotation.y) = ExactSum(calls, 2)
    /\ Units(rotation.z) = ExactSum(calls, 3)
    /\ \A p \in Orders(Len(calls)) :
          /\ SameNumber(Accumulate(Reordered(calls, p), 1), rotation.x)
          /\ SameNumber(Accumulate(Reordered(calls, p), 2), rotation.y)
          /\ SameNumber(Accumulate(Reordered(calls, p), 3), rotation.z)

\* C12: from zero(), after any sequence of rotate calls each angle is the
\* f32 sum of the deltas of its own axis added in call order, every addition
\* rounded to the nearest f32; a call whose delta on an axis is zero leaves
\* that angle as it was, so no axis is changed by the delta of another
C12_Accumulated ==
    /\ rotation = Angles(calls)
    /\ \A i \in 1..Len(calls) : \A axis \in 1..3 :
          calls[i][axis] = Still =>
              Accumulate(SubSeq(calls, 1, i), axis) = Accumulate(SubSeq(calls, 1, i - 1), axis)

\* three calls on the x axis whose rounded sum depends on their order
C12_Witness ==
    /\ Len(calls) = MaxRotations
    /\ \A i \in 1..Len(calls) : calls[i][1] # Still
    /\ \E p \in Orders(Len(calls)) :
          ~SameNumber(Accumulate(Reordered(calls, p), 1), rotation.x)

----------------------------------------------------------------------------
(* tw3d-core/src/projection.rs: Camera::project_to_screen, from the clip  *)
(* space point `clip = mvp.transform_point(point)` on.                     *)

Some(v) == <<v>>

One == F32FromInt(1)
Half == F32Lit(1, 2)
\* projection.rs:79, the literal 1e-6
Epsilon == F32Lit(1, 1000000)

\* projection.rs:88
outside_clip(ndc_x, ndc_y) ==
    \/ F32Lt(ndc_x, F32Neg(One))
    \/ F32Gt(ndc_x, One)
    \/ F32Lt(ndc_y, F32Neg(One))
    \/ F32Gt(ndc_y, One)

\* projection.rs:79-96
project_to_screen(c, w, h) ==
    IF F32Lt(F32Abs(c[3]), Epsilon) THEN None
    ELSE LET ndc_x == F32Div(c[1], c[3])
             ndc_y == F32Div(c[2], c[3])
             depth == c[3]
         IN  IF outside_clip(ndc_x, ndc_y) THEN None
             ELSE LET screen_x == F32Mul(F32Mul(F32Add(ndc_x, One), Half), F32FromInt(w))
                      screen_y == F32Mul(F32Mul(F32Sub(One, ndc_y), Half), F32FromInt(h))
                  IN  Some(<<screen_x, screen_y, depth>>)

\* the largest f32 below a positive normal f32 that is no power of two
Below(f) == [f EXCEPT !.m = @ - 1]

\* clip space coordinates: 0, 1, -1, 0.5, 1.0001, the epsilon of the depth
\* test and the f32 just below it, +infinity and NaN (a mesh vertex read
\* from a binary STL holds any f32, and transform_point carries a NaN or an
\* infinity into every clip coordinate)
ClipValues ==
    {f32_zero(0), One, F32Neg(One), Half, F32Lit(10001, 10000),
     Epsilon, Below(Epsilon), f32_infinity(0), f32_nan}

\* the width and height passed by render_triangle (renderer.rs:47-49)
Sizes == {<<0, 0>>, <<2, 1>>, <<80, 24>>}

ProjectInit ==
    /\ clip \in ClipValues \X ClipValues \X ClipValues
    /\ \E size \in Sizes : width = size[1] /\ height = size[2]
    /\ projected = <<>>
    /\ rotation = RotationState_zero
    /\ calls = <<>>
    /\ pc = "idle"
    /\ shown = <<>>
    /\ frame = <<>>
    /\ running = FALSE
    /\ face = <<>>
    /\ face_normal = <<>>
    /\ glyph = <<>>
    /\ src = [fmt |-> "none"]
    /\ data = <<>>
    /\ result = NoResult
    /\ prior = NoResult
    /\ depth_buffer = <<>>
    /\ char_buffer = <<>>
    /\ drawn = <<>>
    /\ last = [op |-> "idle", erased |-> 0]

Project ==
    /\ projected = <<>>
    /\ projected' = <<project_to_screen(clip, width, height)>>
    /\ UNCHANGED <<stlVars, renderVars, rotVars, clip, loopVars, geoVars>>

ProjectNext == Project

SpecProject == ProjectInit /\ [][ProjectNext]_vars

----------------------------------------------------------------------------
(* Properties of project_to_screen.                                         *)

\* lo <= v <= hi as numbers: no NaN is within an interval
Within(v, lo, hi) == ~IsNaN(v) /\ ~F32Lt(v, lo) /\ ~F32Gt(v, hi)

\* |depth| >= epsilon as numbers
DepthKept(c) == ~IsNaN(c[3]) /\ ~F32Lt(F32Abs(c[3]), Epsilon)

Visible(c) ==
    /\ DepthKept(c)
    /\ Within(F32Div(c[1], c[3]), F32Neg(One), One)
    /\ Within(F32Div(c[2], c[3]), F32Neg(One), One)

\* C11: project_to_screen returns a result exactly when |depth| is at least
\* epsilon and both normalized coordinates x/depth and y/depth lie within
\* [-1, 1]
C11_ClipTest ==
    projected # <<>> => (projected[1] # None <=> Visible(clip))

\* C11, away from NaN: for clip coordinates whose depth and normalized
\* coordinates are numbers, a result is returned exactly when the point is
\* visible; (1, 1) is accepted and (1.0001, 0) is rejected
C11_ClipTestOfNumbers ==
    projected # <<>> =>
        /\ (~IsNaN(clip[3]) /\ ~IsNaN(F32Div(clip[1], clip[3])) /\ ~IsNaN(F32Div(clip[2], clip[3])))
              => (projected[1] # None <=> Visible(clip))
        /\ clip = <<One, One, One>> => projected[1] # None
        /\ clip = <<F32Lit(10001, 10000), f32_zero(0), One>> => projected[1] = None

----------------------------------------------------------------------------
(* Properties of render_mesh.                                               *)

\* the buffers after the given calls of rasterize_triangle, in order
RECURSIVE Replay(_, _)
Replay(r, draws) ==
    IF draws = <<>> THEN r
    ELSE Replay(rasterize_triangle(r, Head(draws).coords, Head(draws).character),
                Tail(draws))

\* C13: a triangle with a rejected vertex changes neither buffer and does
\* not end the frame: since the last clear the buffers are those that
\* rasterizing the triangles with three accepted vertices, each of them and
\* in mesh order, gives
C13_ClippedTriangleSkipped ==
    renderer = Replay(AsciiRenderer_new(width, height), drawn)

\* a mesh of two triangles was rendered: the first has a rejected vertex,
\* the second was rasterized after it and wrote to the buffers
C13_Witness ==
    /\ last.op = "render_mesh"
    /\ last.triangles = 2
    /\ last.clipped = {1}
    /\ Len(drawn) = 1
    /\ Touched(renderer) > 0

----------------------------------------------------------------------------
(* tw3d-core/src/geometry.rs: Triangle::calculate_normal, and the shading  *)
(* of renderer.rs:65-74.  Vectors are triples of f32.                      *)

\* floor(sqrt(M * 4^(pairs - 13))) and whether it is exact, two bits of the
\* radicand at a time; M < 4^13
RECURSIVE Isqrt(_, _, _, _, _)
Isqrt(M, i, pairs, root, rem) ==
    IF i > pairs THEN <<root, rem>>
    ELSE CHOOSE out \in
           { IF r >= 4 * root + 1
             THEN Isqrt(M, i + 1, pairs, 2 * root + 1, r - (4 * root + 1))
             ELSE Isqrt(M, i + 1, pairs, 2 * root, r)
           : r \in {4 * rem + (IF i <= 13 THEN (M \div 4 ^ (13 - i)) % 4 ELSE 0)} } : TRUE

\* f32::sqrt
F32Sqrt(a) ==
    IF IsNaN(a) THEN f32_nan
    ELSE IF IsZero(a) THEN a
    ELSE IF a.s = 1 THEN f32_nan
    ELSE IF a.e = 255 THEN a
    ELSE LET N == Normal(a)
             odd == (N[2] - 150) % 2
         IN  CHOOSE out \in
               { F32Round(0, 2 * q[1] + (IF q[2] = 0 THEN 0 ELSE 1),
                          135 + ((N[2] - 150 - odd) \div 2))
               : q \in {Isqrt(N[1] * (1 + odd), 1, 27, 0, 0)} } : TRUE

\* f32::max: the other operand when one is NaN
F32Max(a, b) ==
    IF IsNaN(a) THEN b
    ELSE IF IsNaN(b) THEN a
    ELSE IF F32Lt(a, b) THEN b ELSE a

\* `f as usize` for f below 2^24: NaN and negative values give 0, the
\* fraction is dropped
F32ToUsize(f) ==
    IF IsNaN(f) \/ f.s = 1 \/ Ex(f) < 127 THEN 0
    ELSE Sig(f) \div 2 ^ (150 - Ex(f))

\* v1 - v0 on points
VSub(a, b) == <<F32Sub(a[1], b[1]), F32Sub(a[2], b[2]), F32Sub(a[3], b[3])>>

\* Vector3::cross
cross(a, b) ==
    <<F32Sub(F32Mul(a[2], b[3]), F32Mul(a[3], b[2])),
      F32Sub(F32Mul(a[3], b[1]), F32Mul(a[1], b[3])),
      F32Sub(F32Mul(a[1], b[2]), F32Mul(a[2], b[1]))>>

\* Vector3::dot
dot(a, b) ==
    F32Add(F32Add(F32Mul(a[1], b[1]), F32Mul(a[2], b[2])), F32Mul(a[3], b[3]))

\* Vector3::norm
norm(a) == F32Sqrt(dot(a, a))

\* Vector3::normalize: self / self.norm()
normalize(a) ==
    CHOOSE out \in { <<F32Div(a[1], n), F32Div(a[2], n), F32Div(a[3], n)>>
                   : n \in {norm(a)} } : TRUE

\* geometry.rs:34-43
calculate_normal(t) == normalize(cross(VSub(t[2], t[1]), VSub(t[3], t[1])))

\* renderer.rs:65-74: the glyph for a face normal
character_of(n) ==
    CHOOSE out \in
      { LUMINOSITY_RAMP[Min(F32ToUsize(F32Mul(brightness, F32FromInt(Len(LUMINOSITY_RAMP) - 1))),
                            Len(LUMINOSITY_RAMP) - 1) + 1]
      : brightness \in
          { F32Max(dot(n, normalize(<<f32_zero(0), f32_zero(0), One>>)), f32_zero(0)) } } : TRUE

\* vertex positions with small whole coordinates
Point(x, y, z) == <<F32FromInt(x), F32FromInt(y), F32FromInt(z)>>
Points == {Point(0, 0, 0), Point(1, 0, 0), Point(0, 1, 0), Point(2, 0, 0), Point(0, 1, 1)}

NormalInit ==
    /\ face \in Points \X Points \X Points
    /\ face_normal = <<>>
    /\ glyph = <<>>
    /\ rotation = RotationState_zero
    /\ calls = <<>>
    /\ clip = <<>>
    /\ projected = <<>>
    /\ pc = "idle"
    /\ shown = <<>>
    /\ frame = <<>>
    /\ running = FALSE
    /\ src = [fmt |-> "none"]
    /\ data = <<>>
    /\ result = NoResult
    /\ prior = NoResult
    /\ width = 0
    /\ height = 0
    /\ depth_buffer = <<>>
    /\ char_buffer = <<>>
    /\ drawn = <<>>
    /\ last = [op |-> "idle", erased |-> 0]

\* geometry.rs:34-43, called on its own
CalculateNormal ==
    /\ face_normal = <<>>
    /\ face_normal' = <<calculate_normal(face)>>
    /\ UNCHANGED <<face, glyph>>
    /\ UNCHANGED <<stlVars, renderVars, rotVars, projVars, loopVars>>

\* renderer.rs:65-74, the shading of a triangle whose vertices were accepted
Shade ==
    /\ glyph = <<>>
    /\ \E n \in {calculate_normal(face)} :
          /\ face_normal' = <<n>>
          /\ glyph' = <<character_of(n)>>
    /\ UNCHANGED face
    /\ UNCHANGED <<stlVars, renderVars, rotVars, projVars, loopVars>>

NormalNext ==
    \/ CalculateNormal
    \/ Shade

SpecNormal == NormalInit /\ [][NormalNext]_vars

----------------------------------------------------------------------------
(* Properties of calculate_normal and of the shading.                       *)

\* collinear or repeated vertices: the cross product of the edges is zero
Degenerate(t) ==
    \A i \in 1..3 : IsZero(cross(VSub(t[2], t[1]), VSub(t[3], t[1]))[i])

\* C14: for a degenerate triangle calculate_normal returns the zero vector,
\* and the triangle is shaded with the first glyph of the ramp
C14_DegenerateZeroNormal ==
    (face_normal # <<>> /\ Degenerate(face)) =>
        /\ \A i \in 1..3 : IsZero(face_normal[1][i])
        /\ glyph # <<>> => glyph[1] = LUMINOSITY_RAMP[1]

\* C14, the part on rendering: a degenerate triangle whose vertices were
\* accepted is shaded with the first glyph of the ramp, and what
\* calculate_normal returned for it is NaN in every coordinate
C14_DegenerateShadedBlank ==
    (glyph # <<>> /\ Degenerate(face)) =>
        /\ glyph[1] = LUMINOSITY_RAMP[1]
        /\ \A i \in 1..3 : IsNaN(face_normal[1][i])

\* faces towards the light, away from it and at an angle get their glyphs
C14_Shades ==
    glyph # <<>> =>
        /\ face = <<Point(0, 0, 0), Point(1, 0, 0), Point(0, 1, 0)>> => glyph[1] = "@"
        /\ face = <<Point(0, 0, 0), Point(0, 1, 0), Point(1, 0, 0)>> => glyph[1] = " "
        /\ face = <<Point(0, 0, 0), Point(1, 0, 0), Point(0, 1, 1)>> => glyph[1] = "*"

----------------------------------------------------------------------------
(* tw3d-terminal/src/lib.rs: TerminalApp.  main_loop runs frames: input,   *)
(* update, render; render clears the buffers, renders the mesh and draws.  *)
(* What the mesh projects to depends on the rotation of the frame, so each *)
(* frame renders some mesh of projected triangles.                         *)

\* most frames main_loop runs
MaxFrames == 2

\* renderer.rs:129-135
color_of(c) ==
    IF c \in {" ", ".", ":"} THEN "DarkGrey"
    ELSE IF c \in {"-", "="} THEN "Grey"
    ELSE IF c \in {"+", "*"} THEN "White"
    ELSE IF c \in {"#", "%", "@"} THEN "Cyan"
    ELSE "White"

\* renderer.rs:122-145: what draw queues on the writer, a coloured glyph for
\* each entry of a row and a line feed after each row
draw(r) ==
    Flatten([y \in 1..r.height |->
        [x \in 1..r.width |->
            [color |-> color_of(r.char_buffer[(y - 1) * r.width + x]),
             c |-> r.char_buffer[(y - 1) * r.width + x]]]
        \o <<[color |-> "none", c |-> "\n"]>>])

\* lib.rs:94-122: the rotation and the running flag after a key
handle_input(rot, run, key) ==
    IF key = "q" THEN [rotation |-> rot, running |-> FALSE]
    ELSE IF key \in DOMAIN KeyDeltas
    THEN [rotation |-> rotate(rot, KeyDeltas[key][1], KeyDeltas[key][2], KeyDeltas[key][3]),
          running |-> run]
    ELSE [rotation |-> rot, running |-> run]

\* lib.rs:124-127
update(rot) == rotate(rot, UpdateDelta[1], UpdateDelta[2], UpdateDelta[3])

Keys == DOMAIN KeyDeltas \cup {"q", "x"}

\* what the mesh of the application projects to in a frame: nothing, a
\* triangle over the whole screen, or a clipped triangle and a corner
AppMeshes ==
    {<<>>,
     <<[proj |-> Wide(Z(1), Z(1), Z(1)), brightness4 |-> 2]>>,
     <<[proj |-> <<<<0, 0, Z(1)>>, None, <<0, 4, Z(1)>>>>, brightness4 |-> 4],
       [proj |-> Corner(Z(1)), brightness4 |-> 4]>>}

\* lib.rs:30-43
AppInit ==
    /\ \E w \in 0..MaxDim, h \in 0..MaxDim :
          /\ width = w
          /\ height = h
          /\ depth_buffer = AsciiRenderer_new(w, h).depth_buffer
          /\ char_buffer = AsciiRenderer_new(w, h).char_buffer
    /\ drawn = <<>>
    /\ last = [op |-> "new", erased |-> 0]
    /\ rotation = RotationState_new(F32Lit(3, 10), F32Lit(3, 10), f32_zero(0))
    /\ running = TRUE
    /\ pc = "poll"
    /\ shown = <<>>
    /\ frame = [n |-> 0, model |-> <<>>, erased |-> 0, mesh |-> <<>>]
    /\ calls = <<>>
    /\ clip = <<>>
    /\ projected = <<>>
    /\ face = <<>>
    /\ face_normal = <<>>
    /\ glyph = <<>>
    /\ src = [fmt |-> "none"]
    /\ data = <<>>
    /\ result = NoResult
    /\ prior = NoResult

\* lib.rs:61-67: the loop goes on, an event is waiting
HandleInput ==
    /\ pc = "poll"
    /\ running
    /\ frame.n < MaxFrames
    /\ \E key \in Keys :
          /\ rotation' = handle_input(rotation, running, key).rotation
          /\ running' = handle_input(rotation, running, key).running
    /\ pc' = "update"
    /\ UNCHANGED <<shown, frame, calls>>
    /\ UNCHANGED <<stlVars, renderVars, projVars, geoVars>>

\* lib.rs:61-67: the loop goes on, no event is waiting
NoInput ==
    /\ pc = "poll"
    /\ running
    /\ frame.n < MaxFrames
    /\ pc' = "update"
    /\ UNCHANGED <<shown, frame, running>>
    /\ UNCHANGED <<stlVars, renderVars, rotVars, projVars, geoVars>>

\* lib.rs:61, 91: running is false, main_loop returns
Exit ==
    /\ pc = "poll"
    /\ ~running
    /\ pc' = "exit"
    /\ UNCHANGED <<shown, frame, running>>
    /\ UNCHANGED <<stlVars, renderVars, rotVars, projVars, geoVars>>

\* lib.rs:70
Update ==
    /\ pc = "update"
    /\ rotation' = update(rotation)
    /\ pc' = "clear"
    /\ UNCHANGED <<shown, frame, running, calls>>
    /\ UNCHANGED <<stlVars, renderVars, projVars, geoVars>>

\* lib.rs:130-133: render takes the model matrix of the rotation and clears
RenderClear ==
    /\ pc = "clear"
    /\ \E after \in {clear(renderer)} :
          /\ depth_buffer' = after.depth_buffer
          /\ char_buffer' = after.char_buffer
    /\ drawn' = <<>>
    /\ last' = [op |-> "clear", erased |-> Touched(renderer)]
    /\ frame' = [n |-> frame.n + 1, model |-> rotation,
                 erased |-> Touched(renderer), mesh |-> <<>>]
    /\ pc' = "render_mesh"
    /\ UNCHANGED <<width, height, shown, running>>
    /\ UNCHANGED <<stlVars, rotVars, projVars, geoVars>>

\* lib.rs:136
RenderAccumulate ==
    /\ pc = "render_mesh"
    /\ \E mesh \in AppMeshes :
          /\ \E after \in {render_mesh(renderer, mesh)} :
                /\ depth_buffer' = after.depth_buffer
                /\ char_buffer' = after.char_buffer
          /\ drawn' = drawn \o rasterized(mesh)
          /\ last' = [op |-> "render_mesh", erased |-> 0,
                      triangles |-> Len(mesh), clipped |-> clipped(mesh)]
          /\ frame' = [frame EXCEPT !.mesh = mesh]
    /\ pc' = "draw"
    /\ UNCHANGED <<width, height, shown, running>>
    /\ UNCHANGED <<stlVars, rotVars, projVars, geoVars>>

\* lib.rs:139-158
RenderDraw ==
    /\ pc = "draw"
    /\ shown' = draw(renderer)
    /\ pc' = "poll"
    /\ UNCHANGED <<frame, running>>
    /\ UNCHANGED <<stlVars, renderVars, rotVars, projVars, geoVars>>

AppNext ==
    \/ HandleInput
    \/ NoInput
    \/ Exit
    \/ Update
    \/ RenderClear
    \/ RenderAccumulate
    \/ RenderDraw

SpecApp == AppInit /\ [][AppNext]_vars

----------------------------------------------------------------------------
(* Properties of the frame loop.                                            *)

\* the buffers a frame that renders the mesh must end with
FrameOf(mesh) == Replay(AsciiRenderer_new(width, height), rasterized(mesh))

\* C15: every frame is clear, then accumulate, then emit: accumulation
\* begins on fully cleared buffers, draw is handed buffers that hold the
\* triangles of the frame's own mesh and nothing of an earlier frame, what
\* the terminal was last given is the image of the last finished frame
\* alone, and between the clear and the draw the rotation is the one the
\* frame began with
C15_ClearAccumulateEmit ==
    /\ pc = "render_mesh" => renderer = AsciiRenderer_new(width, height)
    /\ pc = "draw" => renderer = FrameOf(frame.mesh)
    /\ pc \in {"render_mesh", "draw"} => rotation = frame.model
    /\ (pc \in {"poll", "update", "exit"} /\ frame.n > 0) => shown = draw(FrameOf(frame.mesh))
    /\ (pc = "clear" /\ frame.n > 0) => shown = draw(FrameOf(frame.mesh))

\* the second frame is over: its clear erased a screen that the first
\* frame had filled, it rendered nothing, and the terminal was given
\* blanks; the rotation moved between the frames
C15_Witness ==
    /\ pc = "poll"
    /\ frame.n = 2
    /\ width >= 2
    /\ height >= 2
    /\ frame.erased = width * height
    /\ frame.mesh = <<>>
    /\ \A i \in DOMAIN shown : shown[i].c \in {" ", "\n"}
    /\ Len(shown) = (width + 1) * height
    /\ rotation # RotationState_new(F32Lit(3, 10), F32Lit(3, 10), f32_zero(0))

----------------------------------------------------------------------------
(* Properties of the buffers.                                               *)

\* C16: both buffers have width * height entries; every index that
\* rasterize_triangle computed for a triangle drawn since the last clear is
\* at least 0 and below width * height; and an entry whose depth is
\* +infinity holds the blank glyph
C16_BufferBounds ==
    /\ Len(depth_buffer) = width * height
    /\ Len(char_buffer) = width * height
    /\ \A i \in DOMAIN drawn :
          \A idx \in indexes(renderer, drawn[i].coords) :
              0 <= idx /\ idx < width * height
    /\ \A e \in DOMAIN depth_buffer :
          depth_buffer[e] = Inf => char_buffer[e] = " "

\* on a buffer of 2 x 2 a triangle with a vertex at x = width and a vertex
\* at y = height was rasterized: some entries were written and one is left
\* at +infinity
C16_Witness ==
    /\ width = 2
    /\ height = 2
    /\ \E i \in DOMAIN drawn :
          /\ \E v \in 1..3 : drawn[i].coords[v][1] = 2 * width
          /\ \E v \in 1..3 : drawn[i].coords[v][2] = 2 * height
          /\ indexes(renderer, drawn[i].coords) # {}
    /\ \E e \in DOMAIN depth_buffer : depth_buffer[e] = Inf
    /\ \E e \in DOMAIN depth_buffer : depth_buffer[e] # Inf

\* a renderer without entries was handed a triangle over the whole screen
C16_EmptyBuffer ==
    /\ width * height = 0
    /\ drawn # <<>>

====
